---- MODULE Spec2Model ----
(***************************************************************************)
(* The double-buffered wave streaming engine of projectoxford/_audio_win32 *)
(* (PlaybackDevice.play, RecordingDevice.record, close) together with the  *)
(* waveform device it drives.  The calling thread is modelled statement by *)
(* statement through pc; the driver thread completes queued buffers and    *)
(* signals the completion event on its own.                                *)
(***************************************************************************)
EXTENDS Integers, Sequences, FiniteSets, TLC

\* ------------------------------------------------------------------ bounds
MaxChunks == 2    \* non-empty chunks per play / true answers per record
MaxCalls  == 1    \* play or record calls made on one engine before close
MaxFaults == 1    \* device calls that fail for reasons outside the engine

\* --------------------------------------------------------------- constants
WAIT_OBJECT_0 == 0       \* WaitForSingleObject: the event is signaled
WAIT_TIMEOUT  == 258     \* WaitForSingleObject: the 500 ms elapsed

NOERROR             == "MMSYSERR_NOERROR"
WAVERR_STILLPLAYING == "WAVERR_STILLPLAYING"
MMSYSERR_NOMEM      == "MMSYSERR_NOMEM"

Slots == {1, 2}                      \* hdr1, hdr2
FaultCodes == {MMSYSERR_NOMEM}
Channels == {2}
ChunkLens == {1}                     \* len(data) of a non-empty chunk
SampleCounts == {1, 2}               \* the `samples` argument of record
SampWidths == {2}
FrameRates == {8}

VARIABLES
  kind,     \* "out": a PlaybackDevice, "in": a RecordingDevice
  legacy,   \* the build: TRUE when a cdef void helper discards an exception
  fmt,      \* _c_fmt
  pc,       \* the statement the calling thread is at
  dev,      \* the device: both WAVEHDRs, its queue, started, handle
  evt,      \* _c_evt: [signaled, open]
  loc,      \* the locals of play / record
  exc,      \* the exception in flight
  result,   \* how the last finished call ended
  faults,   \* device failures still to be injected
  calls,    \* play/record calls made so far
  hist      \* what the current call and the device did (observation only)

vars == <<kind, legacy, fmt, pc, dev, evt, loc, exc, result, faults, calls, hist>>

\* ------------------------------------------------------------- exceptions
NoExc         == [type |-> "none", cause |-> "", code |-> NOERROR]
Returned      == [type |-> "returned", cause |-> "", code |-> NOERROR]
CallbackError == [type |-> "callback", cause |-> "", code |-> NOERROR]
OSError(cause, r) == [type |-> "OSError", cause |-> cause, code |-> r]

\* check_mmresult: NOERROR is a no-op, any other code raises OSError.
check_mmresult(r, cause) == IF r = NOERROR THEN NoExc ELSE OSError(cause, r)

check_mmr_in(r, cause) == check_mmresult(r, cause)

check_mmr_out(r, cause) == check_mmresult(r, cause)

\* What a cdef void helper lets out: nothing in the legacy build.
Escapes(e) == IF legacy THEN NoExc ELSE e

\* ----------------------------------------------------------------- device
ZeroHdr == [lpData |-> 0, dwBufferLength |-> 0,
            prepared |-> FALSE, inqueue |-> FALSE, done |-> FALSE]

ZeroHdrs == [s \in Slots |-> ZeroHdr]

\* A queue entry 0 is a header of a call that has returned.
Stale(q) == [i \in DOMAIN q |-> 0]

RECURSIVE MarkDone(_, _)
MarkDone(h, q) ==
  IF q = <<>> THEN h
  ELSE LET s == Head(q)
           h2 == IF s = 0 THEN h
                 ELSE [h EXCEPT ![s].done = TRUE, ![s].inqueue = FALSE]
       IN MarkDone(h2, Tail(q))

Res(d, rc) == [dev |-> d, rc |-> rc]

PrepareHeader(d, w, f) ==
  IF f # NOERROR THEN Res(d, f)
  ELSE IF d.hdr[w].inqueue THEN Res(d, WAVERR_STILLPLAYING)
  ELSE Res([d EXCEPT !.hdr[w].prepared = TRUE], NOERROR)

QueueHeader(d, w, f) ==
  IF f # NOERROR THEN Res(d, f)
  ELSE IF d.hdr[w].inqueue THEN Res(d, WAVERR_STILLPLAYING)
  ELSE Res([d EXCEPT !.hdr[w].inqueue = TRUE, !.hdr[w].done = FALSE,
                     !.queue = Append(@, w)], NOERROR)

UnprepareHeader(d, w, f) ==
  IF f # NOERROR THEN Res(d, f)
  ELSE IF d.hdr[w].inqueue THEN Res(d, WAVERR_STILLPLAYING)
  ELSE Res([d EXCEPT !.hdr[w].prepared = FALSE], NOERROR)

ResetDevice(d, f) ==
  IF f # NOERROR THEN Res(d, f)
  ELSE Res([d EXCEPT !.hdr = MarkDone(@, d.queue), !.queue = <<>>,
                     !.pend = @ \/ d.queue # <<>>, !.started = FALSE], NOERROR)

waveOutPrepareHeader(d, w, f) == PrepareHeader(d, w, f)

waveOutWrite(d, w, f) == QueueHeader(d, w, f)

waveOutUnprepareHeader(d, w, f) == UnprepareHeader(d, w, f)

waveOutReset(d, f) == ResetDevice(d, f)

waveInPrepareHeader(d, w, f) == PrepareHeader(d, w, f)

waveInAddBuffer(d, w, f) == QueueHeader(d, w, f)

waveInUnprepareHeader(d, w, f) == UnprepareHeader(d, w, f)

waveInReset(d, f) == ResetDevice(d, f)

waveInStart(d, f) ==
  IF f # NOERROR THEN Res(d, f) ELSE Res([d EXCEPT !.started = TRUE], NOERROR)

\* Stop marks the buffer being filled as done; empty ones stay queued.
waveInStop(d, f) ==
  IF f # NOERROR THEN Res(d, f)
  ELSE IF d.queue = <<>> THEN Res([d EXCEPT !.started = FALSE], NOERROR)
  ELSE Res([d EXCEPT !.hdr = MarkDone(@, <<Head(d.queue)>>),
                     !.queue = Tail(@), !.pend = TRUE,
                     !.started = FALSE], NOERROR)

waveClose(d, f) ==
  IF f # NOERROR THEN Res(d, f)
  ELSE IF d.queue # <<>> THEN Res(d, WAVERR_STILLPLAYING)
  ELSE Res([d EXCEPT !.hwOpen = FALSE], NOERROR)

\* ---------------------------------------------------------------- history
InitHist ==
  [op |-> "none", nProduce |-> 0, nChunks |-> 0, nConsume |-> 0, nTrue |-> 0,
   consLens |-> {}, consData |-> <<>>, samples |-> 0, cbRaised |-> 0,
   stopped |-> "", devCalls |-> 0, waits |-> 0, failed |-> <<>>,
   nPrep |-> 0, nSubmit |-> 0, submitOrder |-> <<>>,
   nUnprep |-> 0, unprepOrder |-> <<>>, resetDone |-> FALSE,
   stopIssued |-> FALSE, submitAfterFail |-> FALSE, inLoop |-> FALSE,
   left |-> [prepared |-> {}, inqueue |-> {}],
   closeLog |-> <<>>, lateDone |-> FALSE, lateSignal |-> FALSE,
   devEnded |-> FALSE, context |-> <<>>, submitCalls |-> <<>>]

Fresh(h, op) ==
  [InitHist EXCEPT !.op = op, !.closeLog = h.closeLog,
                   !.lateDone = h.lateDone, !.lateSignal = h.lateSignal,
                   !.devEnded = h.devEnded]

Op(call, cause, lp, d, x) ==
  [call |-> call, cause |-> cause, lp |-> lp, rc |-> x.rc, eff |-> x.dev # d]

Record1(h, o) ==
  LET ok == o.rc = NOERROR IN
  [h EXCEPT
     !.devCalls = @ + 1,
     !.failed = IF ok THEN @ ELSE Append(@, [cause |-> o.cause, code |-> o.rc]),
     !.nPrep = IF o.call = "prepare" /\ ok /\ o.eff THEN @ + 1 ELSE @,
     !.nSubmit = IF o.call = "queue" /\ ok THEN @ + 1 ELSE @,
     !.submitCalls = IF o.call = "prepare" THEN Append(@, o.lp) ELSE @,
     !.submitOrder = IF o.call = "queue" /\ ok THEN Append(@, o.lp) ELSE @,
     !.submitAfterFail = @ \/ (o.call = "queue" /\ ok /\ h.failed # <<>>),
     !.nUnprep = IF o.call = "unprepare" /\ ok /\ o.eff THEN @ + 1 ELSE @,
     !.unprepOrder = IF o.call = "unprepare" /\ ok /\ o.eff
                     THEN Append(@, o.lp) ELSE @,
     !.resetDone = @ \/ (o.call = "reset" /\ ok),
     !.stopIssued = @ \/ o.call = "stop",
     !.closeLog = IF h.op = "close" THEN Append(@, o.call) ELSE @,
     !.lateDone = @ \/ (h.op = "close" /\ o.call = "reset" /\ o.eff)]

RECURSIVE Record(_, _)
Record(h, ops) ==
  IF ops = <<>> THEN h ELSE Record(Record1(h, Head(ops)), Tail(ops))

\* Faulty variant of Raised: the exception that was in flight is dropped.
Raised_context_lost(h, e, old) == h

\* An exception e raised inside a finally block while old is in flight takes
\* its place; old stays reachable as the __context__ of e.
Raised(h, e, old) ==
  IF e # NoExc /\ old # NoExc THEN [h EXCEPT !.context = <<old.type>> \o @]
  ELSE h

\* Device failures injected by the calls of one step.
Used(ops) == Cardinality({i \in DOMAIN ops : ops[i].rc \in FaultCodes})

FaultChoices == IF faults > 0 THEN {NOERROR} \cup FaultCodes ELSE {NOERROR}

\* ------------------------------------------------------------ hdr helpers
Out(d, e, ops) == [dev |-> d, exc |-> e, ops |-> ops]

hdr_in_prepare_add(d, w, f1, f2) ==
  LET a  == waveInPrepareHeader(d, w, f1)
      e1 == check_mmr_in(a.rc, "prepare audio buffer")
      o1 == Op("prepare", "prepare audio buffer", d.hdr[w].lpData, d, a)
      b  == waveInAddBuffer(a.dev, w, f2)
      o2 == Op("queue", "add audio buffer", d.hdr[w].lpData, a.dev, b)
  IN IF e1 # NoExc THEN Out(a.dev, e1, <<o1>>)
     ELSE Out(b.dev, check_mmr_in(b.rc, "add audio buffer"), <<o1, o2>>)

hdr_in_unprepare(d, w, f) ==
  LET a == waveInUnprepareHeader(d, w, f)
  IN Out(a.dev, check_mmr_in(a.rc, "unprepare audio buffer"),
         <<Op("unprepare", "unprepare audio buffer", d.hdr[w].lpData, d, a)>>)

hdr_out_prepare_write(d, w, f1, f2) ==
  LET a  == waveOutPrepareHeader(d, w, f1)
      e1 == check_mmr_out(a.rc, "prepare audio data")
      o1 == Op("prepare", "prepare audio data", d.hdr[w].lpData, d, a)
      b  == waveOutWrite(a.dev, w, f2)
      o2 == Op("queue", "write audio data", d.hdr[w].lpData, a.dev, b)
  IN IF e1 # NoExc THEN Out(a.dev, e1, <<o1>>)
     ELSE Out(b.dev, check_mmr_out(b.rc, "write audio data"), <<o1, o2>>)

hdr_out_unprepare(d, w, f) ==
  LET a == waveOutUnprepareHeader(d, w, f)
  IN Out(a.dev, check_mmr_out(a.rc, "unprepare audio buffer"),
         <<Op("unprepare", "unprepare audio buffer", d.hdr[w].lpData, d, a)>>)

\* ------------------------------------------------------- the calling thread
NoLocals ==
  [phdr |-> 1, pnext_hdr |-> 2, data |-> 0, data2 |-> 0, data1 |-> 0,
   buflen |-> 0, exit |-> FALSE, another |-> FALSE, success |-> FALSE,
   r |-> WAIT_OBJECT_0]

\* The call ends: e reaches the caller (NoExc: a normal return) and the two
\* WAVEHDR locals go out of scope, whatever the device still holds of them.
Return(d, h, e) ==
  /\ pc' = "idle"
  /\ result' = IF e = NoExc THEN Returned ELSE e
  /\ exc' = NoExc
  /\ loc' = NoLocals
  /\ dev' = [d EXCEPT !.hdr = ZeroHdrs, !.queue = Stale(@)]
  /\ hist' = [h EXCEPT !.left = [prepared |-> {s \in Slots : d.hdr[s].prepared},
                                 inqueue  |-> {s \in Slots : d.hdr[s].inqueue}],
                        !.devEnded = @ \/ e.type = "OSError"]

\* WaitForSingleObject(self._c_evt, 500) on a manual-reset event.
WaitForSingleObject(e) == IF e.signaled THEN WAIT_OBJECT_0 ELSE WAIT_TIMEOUT

\* Faulty variant of WaitBreaks: a signaled wait leaves the loop by itself.
WaitBreaks_flag_unread(r, h) == r # 0 \/ r = WAIT_OBJECT_0

\* Faulty variant of WaitBreaks: the completion flag never ends the wait.
WaitBreaks_timeout_only(r, h) == r # 0

\* The test that leaves the wait loop: r != 0 or (phdr.dwFlags & 1) == 1
WaitBreaks(r, h) == r # 0 \/ h.done

\* get_data(): raises, or returns a chunk of some length (0: empty or None).
GetData(h) ==
  {[raised |-> TRUE, data |-> 0]} \cup
  {[raised |-> FALSE, data |-> n] :
      n \in {0} \cup (IF h.nChunks < MaxChunks THEN ChunkLens ELSE {})}

\* on_chunk(data1): raises, or returns a truth value.
OnChunk(h) ==
  {[raised |-> TRUE, value |-> FALSE], [raised |-> FALSE, value |-> FALSE]} \cup
  (IF h.nTrue < MaxChunks THEN {[raised |-> FALSE, value |-> TRUE]} ELSE {})

\* ------------------------------------------------ PlaybackDevice.play
\* Faulty variant of play_first: the `if not data: return` is missing.
play_first_no_early_return ==
  /\ pc = "idle" /\ kind = "out" /\ calls < MaxCalls /\ dev.hwOpen /\ evt.open
  /\ calls' = calls + 1
  /\ UNCHANGED <<kind, legacy, fmt, evt, faults>>
  /\ \E g \in GetData(InitHist) :
       LET h == [Fresh(hist, "play") EXCEPT !.nProduce = 1] IN
       IF g.raised THEN Return(dev, [h EXCEPT !.cbRaised = 1], CallbackError)
       ELSE /\ pc' = "play_submit_first"
            /\ loc' = [NoLocals EXCEPT !.data = g.data]
            /\ dev' = [dev EXCEPT !.hdr = [ZeroHdrs EXCEPT
                                   ![2].lpData = 1, ![2].dwBufferLength = g.data],
                                  !.queue = Stale(@)]
            /\ hist' = IF g.data = 0 THEN [h EXCEPT !.stopped = "empty"]
                       ELSE [h EXCEPT !.nChunks = 1]
            /\ UNCHANGED <<exc, result>>

\* Lines 218-234: the first get_data(), the early return, the first chunk
\* put into pnext_hdr.
play_first ==
  /\ pc = "idle" /\ kind = "out" /\ calls < MaxCalls /\ dev.hwOpen /\ evt.open
  /\ calls' = calls + 1
  /\ UNCHANGED <<kind, legacy, fmt, evt, faults>>
  /\ \E g \in GetData(InitHist) :
       LET h == [Fresh(hist, "play") EXCEPT !.nProduce = 1] IN
       IF g.raised THEN Return(dev, [h EXCEPT !.cbRaised = 1], CallbackError)
       ELSE IF g.data = 0 THEN Return(dev, [h EXCEPT !.stopped = "empty"], NoExc)
       ELSE /\ pc' = "play_submit_first"
            /\ loc' = [NoLocals EXCEPT !.data = g.data]
            /\ dev' = [dev EXCEPT !.hdr = [ZeroHdrs EXCEPT
                                   ![2].lpData = 1, ![2].dwBufferLength = g.data],
                                  !.queue = Stale(@)]
            /\ hist' = [h EXCEPT !.nChunks = 1]
            /\ UNCHANGED <<exc, result>>

\* Line 236: hdr_out_prepare_write(hw, pnext_hdr)
play_submit_first ==
  /\ pc = "play_submit_first"
  /\ UNCHANGED <<kind, legacy, fmt, evt, calls>>
  /\ \E f1, f2 \in FaultChoices :
       LET x == hdr_out_prepare_write(dev, loc.pnext_hdr, f1, f2)
           e == Escapes(x.exc)
           h == Record(hist, x.ops)
       IN /\ faults' = faults - Used(x.ops)
          /\ IF e # NoExc THEN Return(x.dev, h, e)
             ELSE /\ pc' = "play_get" /\ dev' = x.dev /\ hist' = h
                  /\ UNCHANGED <<loc, exc, result>>

\* Lines 240-246: swap the roles, then get_data() for the following chunk.
play_get ==
  /\ pc = "play_get"
  /\ UNCHANGED <<kind, legacy, fmt, dev, evt, result, faults, calls>>
  /\ \E g \in GetData(hist) :
       LET l == [loc EXCEPT !.phdr = loc.pnext_hdr, !.pnext_hdr = loc.phdr,
                            !.data2 = loc.data, !.data = loc.data2,
                            !.success = FALSE]
           h == [hist EXCEPT !.nProduce = @ + 1]
       IN IF g.raised
          THEN /\ pc' = "play_fin_reset" /\ exc' = CallbackError /\ loc' = l
               /\ hist' = [h EXCEPT !.cbRaised = h.nProduce]
          ELSE /\ pc' = "play_submit" /\ exc' = exc
               /\ loc' = [l EXCEPT !.data = g.data, !.success = TRUE]
               /\ hist' = [h EXCEPT !.nChunks = IF g.data > 0 THEN @ + 1 ELSE @]

\* Line 250, in the finally of a get_data() that raised.
play_fin_reset ==
  /\ pc = "play_fin_reset"
  /\ UNCHANGED <<kind, legacy, fmt, evt, calls>>
  /\ \E f \in FaultChoices :
       LET x == waveOutReset(dev, f)
           o == Op("reset", "reset audio device", 0, dev, x)
           e == check_mmr_out(x.rc, "reset audio device")
           h == Raised(Record(hist, <<o>>), e, exc)
       IN /\ faults' = faults - Used(<<o>>)
          /\ IF e # NoExc THEN Return(x.dev, h, e)
             ELSE /\ pc' = "play_fin_unprep" /\ dev' = x.dev /\ hist' = h
                  /\ UNCHANGED <<loc, exc, result>>

\* Line 251, then the exception goes on to the caller.
play_fin_unprep ==
  /\ pc = "play_fin_unprep"
  /\ UNCHANGED <<kind, legacy, fmt, evt, calls>>
  /\ \E f \in FaultChoices :
       LET x == hdr_out_unprepare(dev, loc.phdr, f)
           e == Escapes(x.exc)
       IN /\ faults' = faults - Used(x.ops)
          /\ Return(x.dev, Raised(Record(hist, x.ops), e, exc),
                    IF e # NoExc THEN e ELSE exc)

\* Lines 252-258: submit the new chunk, or mark the final iteration.
play_submit ==
  /\ pc = "play_submit"
  /\ UNCHANGED <<kind, legacy, fmt, evt, calls>>
  /\ IF loc.data > 0
     THEN \E f1, f2 \in FaultChoices :
            LET d == [dev EXCEPT !.hdr[loc.pnext_hdr].lpData = hist.nChunks,
                                 !.hdr[loc.pnext_hdr].dwBufferLength = loc.data]
                x == hdr_out_prepare_write(d, loc.pnext_hdr, f1, f2)
                e == Escapes(x.exc)
                h == Record(hist, x.ops)
            IN /\ faults' = faults - Used(x.ops)
               /\ IF e # NoExc THEN Return(x.dev, h, e)
                  ELSE /\ pc' = "play_wait" /\ dev' = x.dev /\ hist' = h
                       /\ UNCHANGED <<loc, exc, result>>
     ELSE /\ pc' = "play_wait"
          /\ loc' = [loc EXCEPT !.exit = TRUE]
          /\ hist' = [hist EXCEPT !.stopped = "empty"]
          /\ UNCHANGED <<dev, exc, result, faults>>

\* Lines 260-264: one turn of the wait loop.
play_wait ==
  /\ pc = "play_wait"
  /\ LET r == WaitForSingleObject(evt) IN
       /\ loc' = [loc EXCEPT !.r = r]
       /\ pc' = IF WaitBreaks(r, dev.hdr[loc.phdr]) THEN "play_unprep"
                ELSE "play_wait"
  /\ hist' = [hist EXCEPT !.waits = 1]
  /\ UNCHANGED <<kind, legacy, fmt, dev, evt, exc, result, faults, calls>>

\* Faulty variant of play_unprep: the other slot is unprepared.
play_unprep_next_slot ==
  /\ pc = "play_unprep"
  /\ UNCHANGED <<kind, legacy, fmt, evt, calls>>
  /\ \E f \in FaultChoices :
       LET x == hdr_out_unprepare(dev, loc.pnext_hdr, f)
           e == Escapes(x.exc)
           h == Record(hist, x.ops)
       IN /\ faults' = faults - Used(x.ops)
          /\ IF e # NoExc THEN Return(x.dev, h, e)
             ELSE IF loc.exit THEN Return(x.dev, h, NoExc)
             ELSE /\ pc' = "play_get" /\ dev' = x.dev /\ hist' = h
                  /\ UNCHANGED <<loc, exc, result>>

\* Line 266, then the loop test.
play_unprep ==
  /\ pc = "play_unprep"
  /\ UNCHANGED <<kind, legacy, fmt, evt, calls>>
  /\ \E f \in FaultChoices :
       LET x == hdr_out_unprepare(dev, loc.phdr, f)
           e == Escapes(x.exc)
           h == Record(hist, x.ops)
       IN /\ faults' = faults - Used(x.ops)
          /\ IF e # NoExc THEN Return(x.dev, h, e)
             ELSE IF loc.exit THEN Return(x.dev, h, NoExc)
             ELSE /\ pc' = "play_get" /\ dev' = x.dev /\ hist' = h
                  /\ UNCHANGED <<loc, exc, result>>

\* ---------------------------------------------- RecordingDevice.record
\* Faulty variant of BufferBytes: the block alignment is left out.
BufferBytes_samples_only(f, samples) == samples

\* bytearray(self._c_fmt.nBlockAlign * samples)
BufferBytes(f, samples) == f.nBlockAlign * samples

\* Lines 317-335: both headers zeroed, both buffers allocated, the first one
\* submitted.
record_begin ==
  /\ pc = "idle" /\ kind = "in" /\ calls < MaxCalls /\ dev.hwOpen /\ evt.open
  /\ calls' = calls + 1
  /\ UNCHANGED <<kind, legacy, fmt, evt>>
  /\ \E samples \in SampleCounts, f1, f2 \in FaultChoices :
       LET n == BufferBytes(fmt, samples)
           d == [dev EXCEPT !.hdr = [ZeroHdrs EXCEPT
                               ![1].lpData = 1, ![1].dwBufferLength = n,
                               ![2].lpData = 2, ![2].dwBufferLength = n],
                            !.queue = Stale(@)]
           l == [NoLocals EXCEPT !.data1 = 1, !.data2 = 2, !.buflen = n]
           x == hdr_in_prepare_add(d, l.phdr, f1, f2)
           e == Escapes(x.exc)
           h == Record([Fresh(hist, "record") EXCEPT !.samples = samples], x.ops)
       IN /\ faults' = faults - Used(x.ops)
          /\ IF e # NoExc THEN Return(x.dev, h, e)
             ELSE /\ pc' = "rec_start" /\ dev' = x.dev /\ hist' = h /\ loc' = l
                  /\ UNCHANGED <<exc, result>>

\* Line 338: waveInStart, before the try.
rec_start ==
  /\ pc = "rec_start"
  /\ UNCHANGED <<kind, legacy, fmt, evt, calls>>
  /\ \E f \in FaultChoices :
       LET x == waveInStart(dev, f)
           o == Op("start", "start recording", 0, dev, x)
           e == check_mmr_in(x.rc, "start recording")
           h == Record(hist, <<o>>)
       IN /\ faults' = faults - Used(<<o>>)
          /\ IF e # NoExc THEN Return(x.dev, h, e)
             ELSE /\ pc' = "rec_submit" /\ dev' = x.dev /\ hist' = h
                  /\ loc' = [loc EXCEPT !.another = TRUE]
                  /\ UNCHANGED <<exc, result>>

\* Line 343: the next buffer is queued before the wait.
rec_submit ==
  /\ pc = "rec_submit"
  /\ UNCHANGED <<kind, legacy, fmt, evt, calls, loc, result>>
  /\ \E f1, f2 \in FaultChoices :
       LET x == hdr_in_prepare_add(dev, loc.pnext_hdr, f1, f2)
           e == Escapes(x.exc)
       IN /\ faults' = faults - Used(x.ops)
          /\ dev' = x.dev
          /\ hist' = [Record(hist, x.ops) EXCEPT !.inLoop = TRUE]
          /\ exc' = e
          /\ pc' = IF e # NoExc THEN "rec_stop" ELSE "rec_wait"

\* Lines 345-349: one turn of the wait loop.
rec_wait ==
  /\ pc = "rec_wait"
  /\ LET r == WaitForSingleObject(evt) IN
       /\ loc' = [loc EXCEPT !.r = r]
       /\ pc' = IF WaitBreaks(r, dev.hdr[loc.phdr]) THEN "rec_on_chunk"
                ELSE "rec_wait"
  /\ hist' = [hist EXCEPT !.waits = 1]
  /\ UNCHANGED <<kind, legacy, fmt, dev, evt, exc, result, faults, calls>>

\* Lines 351-354: on_chunk(data1)
rec_on_chunk ==
  /\ pc = "rec_on_chunk"
  /\ pc' = "rec_unprep"
  /\ UNCHANGED <<kind, legacy, fmt, dev, evt, result, faults, calls>>
  /\ \E c \in OnChunk(hist) :
       LET h == [hist EXCEPT !.nConsume = @ + 1,
                             !.consLens = @ \cup {loc.buflen},
                             !.consData = Append(@, loc.data1)]
       IN IF c.raised
          THEN /\ exc' = CallbackError
               /\ loc' = [loc EXCEPT !.success = FALSE]
               /\ hist' = [h EXCEPT !.cbRaised = h.nConsume]
          ELSE /\ exc' = exc
               /\ loc' = [loc EXCEPT !.another = c.value, !.success = TRUE]
               /\ hist' = [h EXCEPT !.nTrue = IF c.value THEN @ + 1 ELSE @,
                                    !.stopped = IF c.value THEN @ ELSE "false"]

\* Faulty variant of rec_unprep: the headers swap, data1 and data2 do not.
rec_unprep_data_not_swapped ==
  /\ pc = "rec_unprep"
  /\ UNCHANGED <<kind, legacy, fmt, evt, calls, result>>
  /\ \E f \in FaultChoices :
       LET x == hdr_in_unprepare(dev, loc.phdr, f)
           e == Escapes(x.exc)
       IN /\ faults' = faults - Used(x.ops)
          /\ dev' = x.dev
          /\ hist' = Raised(Record(hist, x.ops), e, exc)
          /\ IF e # NoExc THEN /\ exc' = e /\ pc' = "rec_stop" /\ loc' = loc
             ELSE IF ~loc.success
             THEN /\ exc' = exc /\ pc' = "rec_fin_reset"
                  /\ loc' = [loc EXCEPT !.another = FALSE]
             ELSE /\ exc' = exc
                  /\ loc' = [loc EXCEPT !.phdr = loc.pnext_hdr,
                                        !.pnext_hdr = loc.phdr]
                  /\ pc' = IF loc.another THEN "rec_submit" ELSE "rec_stop"

\* Line 356, first statement of the finally; lines 362-363 and the loop test
\* when on_chunk returned.
rec_unprep ==
  /\ pc = "rec_unprep"
  /\ UNCHANGED <<kind, legacy, fmt, evt, calls, result>>
  /\ \E f \in FaultChoices :
       LET x == hdr_in_unprepare(dev, loc.phdr, f)
           e == Escapes(x.exc)
       IN /\ faults' = faults - Used(x.ops)
          /\ dev' = x.dev
          /\ hist' = Raised(Record(hist, x.ops), e, exc)
          /\ IF e # NoExc THEN /\ exc' = e /\ pc' = "rec_stop" /\ loc' = loc
             ELSE IF ~loc.success
             THEN /\ exc' = exc /\ pc' = "rec_fin_reset"
                  /\ loc' = [loc EXCEPT !.another = FALSE]
             ELSE /\ exc' = exc
                  /\ loc' = [loc EXCEPT !.phdr = loc.pnext_hdr,
                                        !.pnext_hdr = loc.phdr,
                                        !.data1 = loc.data2, !.data2 = loc.data1]
                  /\ pc' = IF loc.another THEN "rec_submit" ELSE "rec_stop"

\* Line 360, when on_chunk raised.
rec_fin_reset ==
  /\ pc = "rec_fin_reset"
  /\ UNCHANGED <<kind, legacy, fmt, evt, calls, loc, result>>
  /\ \E f \in FaultChoices :
       LET x == waveInReset(dev, f)
           o == Op("reset", "reset audio device", 0, dev, x)
           e == check_mmr_in(x.rc, "reset audio device")
       IN /\ faults' = faults - Used(<<o>>)
          /\ dev' = x.dev
          /\ hist' = Raised(Record(hist, <<o>>), e, exc)
          /\ exc' = IF e # NoExc THEN e ELSE exc
          /\ pc' = IF e # NoExc THEN "rec_stop" ELSE "rec_fin_unprep"

\* Line 361, then the exception leaves the inner try.
rec_fin_unprep ==
  /\ pc = "rec_fin_unprep"
  /\ pc' = "rec_stop"
  /\ UNCHANGED <<kind, legacy, fmt, evt, calls, loc, result>>
  /\ \E f \in FaultChoices :
       LET x == hdr_in_unprepare(dev, loc.pnext_hdr, f)
           e == Escapes(x.exc)
       IN /\ faults' = faults - Used(x.ops)
          /\ dev' = x.dev
          /\ hist' = Raised(Record(hist, x.ops), e, exc)
          /\ exc' = IF e # NoExc THEN e ELSE exc

\* Faulty variant of rec_stop: no finally, the stop is skipped when an
\* exception is in flight.
rec_stop_no_finally ==
  /\ pc = "rec_stop"
  /\ UNCHANGED <<kind, legacy, fmt, evt, calls>>
  /\ IF exc # NoExc
     THEN /\ faults' = faults
          /\ Return(dev, hist, exc)
     ELSE \E f \in FaultChoices :
            LET x == waveInStop(dev, f)
                o == Op("stop", "stop recording", 0, dev, x)
                e == check_mmr_in(x.rc, "stop recording")
            IN /\ faults' = faults - Used(<<o>>)
               /\ Return(x.dev, Record(hist, <<o>>), e)

\* Lines 364-366: the outer finally.
rec_stop ==
  /\ pc = "rec_stop"
  /\ UNCHANGED <<kind, legacy, fmt, evt, calls>>
  /\ \E f \in FaultChoices :
       LET x == waveInStop(dev, f)
           o == Op("stop", "stop recording", 0, dev, x)
           e == check_mmr_in(x.rc, "stop recording")
       IN /\ faults' = faults - Used(<<o>>)
          /\ Return(x.dev, Raised(Record(hist, <<o>>), e, exc),
                    IF e # NoExc THEN e ELSE exc)

\* ------------------------------------------------------------------ close
\* Line 206 / 303: CloseHandle(self._c_evt)
close_CloseHandle ==
  /\ pc = "idle" /\ evt.open /\ dev.hwOpen
  /\ pc' = "close_reset"
  /\ evt' = [evt EXCEPT !.open = FALSE]
  /\ hist' = [Fresh(hist, "close") EXCEPT !.closeLog = Append(@, "CloseHandle")]
  /\ UNCHANGED <<kind, legacy, fmt, dev, loc, exc, result, faults, calls>>

\* Faulty variant of close_reset: the handle is released without a reset.
close_reset_skipped ==
  /\ pc = "close_reset"
  /\ pc' = "closed"
  /\ UNCHANGED <<kind, legacy, fmt, evt, loc, exc, calls>>
  /\ \E f \in FaultChoices :
       LET x == waveClose(dev, f)
           o == Op("close", "close audio device", 0, dev, x)
           e == check_mmresult(x.rc, "close audio device")
       IN /\ faults' = faults - Used(<<o>>)
          /\ dev' = x.dev
          /\ hist' = Record(hist, <<o>>)
          /\ result' = IF e # NoExc THEN e ELSE Returned

\* Line 207 / 304: waveOutReset / waveInReset
close_reset ==
  /\ pc = "close_reset"
  /\ UNCHANGED <<kind, legacy, fmt, evt, loc, exc, calls>>
  /\ \E f \in FaultChoices :
       LET x == IF kind = "out" THEN waveOutReset(dev, f) ELSE waveInReset(dev, f)
           o == Op("reset", "reset audio device", 0, dev, x)
           e == check_mmresult(x.rc, "reset audio device")
       IN /\ faults' = faults - Used(<<o>>)
          /\ dev' = x.dev
          /\ hist' = Record(hist, <<o>>)
          /\ pc' = IF e # NoExc THEN "closed" ELSE "close_close"
          /\ result' = IF e # NoExc THEN e ELSE result

\* Line 208 / 305: waveOutClose / waveInClose
close_close ==
  /\ pc = "close_close"
  /\ pc' = "closed"
  /\ UNCHANGED <<kind, legacy, fmt, evt, loc, exc, calls>>
  /\ \E f \in FaultChoices :
       LET x == waveClose(dev, f)
           o == Op("close", "close audio device", 0, dev, x)
           e == check_mmresult(x.rc, "close audio device")
       IN /\ faults' = faults - Used(<<o>>)
          /\ dev' = x.dev
          /\ hist' = Record(hist, <<o>>)
          /\ result' = IF e # NoExc THEN e ELSE Returned

\* ------------------------------------------------------- the driver thread
\* The buffer at the head of the queue completes: its done flag is set.
DevDone ==
  /\ dev.hwOpen /\ dev.queue # <<>> /\ (kind = "out" \/ dev.started)
  /\ dev' = [dev EXCEPT !.hdr = MarkDone(@, <<Head(dev.queue)>>),
                        !.queue = Tail(@), !.pend = TRUE]
  /\ hist' = [hist EXCEPT !.lateDone = @ \/ ~evt.open]
  /\ UNCHANGED <<kind, legacy, fmt, pc, evt, loc, exc, result, faults, calls>>

\* The completion is notified through the event given to waveOutOpen /
\* waveInOpen; the flag and the event are not set in one step.
DevSignal ==
  /\ dev.pend
  /\ dev' = [dev EXCEPT !.pend = FALSE]
  /\ evt' = IF evt.open THEN [evt EXCEPT !.signaled = TRUE] ELSE evt
  /\ hist' = IF evt.open THEN hist ELSE [hist EXCEPT !.lateSignal = @ \/ hist.lateDone]
  /\ UNCHANGED <<kind, legacy, fmt, pc, loc, exc, result, faults, calls>>

\* ---------------------------------------------------------- construction
\* Lines 183-201 / 280-298: the event is created manual-reset and unsignaled,
\* the format is filled in, the device is opened (which may notify).
cinit(nchannels, framerate, sampwidth) ==
  [wFormatTag |-> "WAVE_FORMAT_PCM",
   nChannels |-> nchannels,
   nSamplesPerSec |-> framerate,
   nAvgBytesPerSec |-> sampwidth * nchannels * framerate,
   nBlockAlign |-> sampwidth * nchannels,
   wBitsPerSample |-> sampwidth * 8,
   cbSize |-> 0]

\* -------------------------------------------- construction, step by step
\* MMRESULT codes the table does not list.
OtherCodes == {"MMSYSERR_ALLOCATED", "WAVERR_BADFORMAT"}

\* Lines 104-109.
ERROR_CODES ==
  (WAVERR_STILLPLAYING :> "WAVERR_STILLPLAYING") @@
  ("MMSYSERR_INVALHANDLE" :> "MMSYSERR_INVALHANDLE") @@
  ("MMSYSERR_NODRIVER" :> "MMSYSERR_NODRIVER") @@
  (MMSYSERR_NOMEM :> "MMSYSERR_NOMEM")

\* ERROR_CODES.get(r, 'UNKNOWN_ERROR')
ERROR_CODES_get(r) ==
  IF r \in DOMAIN ERROR_CODES THEN ERROR_CODES[r] ELSE "UNKNOWN_ERROR"

\* waveInGetErrorTextW / waveOutGetErrorTextW(r, msg, 256): the driver fills
\* msg with its own text for r and returns 0, or has no text for r.
GetErrorText(r) ==
  {[r2 |-> NOERROR, msg |-> IF r \in OtherCodes THEN "driver text (other)"
                            ELSE "driver text (listed)"],
   [r2 |-> "MMSYSERR_BADERRNUM", msg |-> ""]}

\* Faulty variant of ErrorMessage: the table is consulted before the driver.
ErrorMessage_table_first(r, t) ==
  IF r \in DOMAIN ERROR_CODES THEN ERROR_CODES[r]
  ELSE IF t.r2 = NOERROR THEN t.msg ELSE "UNKNOWN_ERROR"

\* Lines 119-121: `if r2: msg = ERROR_CODES.get(r, 'UNKNOWN_ERROR')`
ErrorMessage(r, t) ==
  IF t.r2 # NOERROR THEN ERROR_CODES_get(r) ELSE t.msg

\* check_mmresult, with the message it formats (lines 111-122).
check_mmresult_msg(r, cause, t) ==
  IF r = NOERROR THEN NoExc
  ELSE [type |-> "OSError", cause |-> cause, code |-> r,
        msg |-> ErrorMessage(r, t)]

\* nchannels, framerate, sampwidth as the caller may pass them.
CinitArgs ==
  [nchannels : {0, 1, 2}, framerate : {0, 8}, sampwidth : {0, 1, 2},
   r2 : {NOERROR}, msg : {""}]

ZeroArg(a) == a.nchannels = 0 \/ a.framerate = 0 \/ a.sampwidth = 0

\* waveOutOpen / waveInOpen: the driver accepts or refuses.
waveOpen(d, rc) ==
  IF rc = NOERROR THEN Res([d EXCEPT !.hwOpen = TRUE], NOERROR) ELSE Res(d, rc)

\* Lines 183-191 / 280-288: CreateEventW, then the format is filled in.
cinit_CreateEvent ==
  /\ pc = "cinit"
  /\ pc' = "cinit_open"
  /\ evt' = [signaled |-> FALSE, open |-> TRUE]
  /\ fmt' = cinit(loc.nchannels, loc.framerate, loc.sampwidth)
  /\ UNCHANGED <<kind, legacy, dev, loc, exc, result, faults, calls, hist>>

\* Lines 193-201 / 290-298: the device is opened with the format as filled
\* in; a refusal is raised out of __cinit__ and nothing else is done.
cinit_open ==
  /\ pc = "cinit_open"
  /\ UNCHANGED <<kind, legacy, fmt, evt, exc, faults, calls>>
  /\ \E rc \in {NOERROR} \cup DOMAIN ERROR_CODES \cup OtherCodes :
       \E t \in GetErrorText(rc) :
         LET x == waveOpen(dev, rc)
             e == check_mmresult_msg(rc, "open audio device", t)
         IN /\ dev' = x.dev
            /\ loc' = IF e = NoExc THEN loc
                      ELSE [loc EXCEPT !.r2 = t.r2, !.msg = t.msg]
            /\ hist' = Record([hist EXCEPT !.op = "cinit"],
                              <<Op("open", "open audio device", 0, dev, x)>>)
            /\ result' = IF e = NoExc THEN Returned ELSE e
            /\ pc' = IF e = NoExc THEN "constructed" ELSE "cinit_failed"

CinitInit ==
  /\ kind \in {"out", "in"}
  /\ legacy \in BOOLEAN
  /\ fmt = cinit(0, 0, 0)
  /\ pc = "cinit"
  /\ dev = [hdr |-> ZeroHdrs, queue |-> <<>>, pend |-> FALSE,
            started |-> FALSE, hwOpen |-> FALSE]
  /\ evt = [signaled |-> FALSE, open |-> FALSE]
  /\ loc \in CinitArgs
  /\ exc = NoExc
  /\ result = NoExc
  /\ faults = MaxFaults
  /\ calls = 0
  /\ hist = InitHist

CinitNext == cinit_CreateEvent \/ cinit_open

CinitSpec == CinitInit /\ [][CinitNext]_vars


Init ==
  /\ kind \in {"out", "in"}
  /\ legacy \in BOOLEAN
  /\ fmt \in {cinit(c, r, w) : c \in Channels, r \in FrameRates, w \in SampWidths}
  /\ pc = "idle"
  /\ dev = [hdr |-> ZeroHdrs, queue |-> <<>>, pend |-> FALSE,
            started |-> FALSE, hwOpen |-> TRUE]
  /\ evt \in {[signaled |-> b, open |-> TRUE] : b \in BOOLEAN}
  /\ loc = NoLocals
  /\ exc = NoExc
  /\ result = NoExc
  /\ faults = MaxFaults
  /\ calls = 0
  /\ hist = InitHist

Next ==
  \/ play_first \/ play_submit_first \/ play_get \/ play_fin_reset
  \/ play_fin_unprep \/ play_submit \/ play_wait \/ play_unprep
  \/ record_begin \/ rec_start \/ rec_submit \/ rec_wait \/ rec_on_chunk
  \/ rec_unprep \/ rec_fin_reset \/ rec_fin_unprep \/ rec_stop
  \/ close_CloseHandle \/ close_reset \/ close_close
  \/ DevDone \/ DevSignal

Spec == Init /\ [][Next]_vars

\* The statements of a play or record call that is under way.
Running ==
  \/ play_submit_first \/ play_get \/ play_fin_reset \/ play_fin_unprep
  \/ play_submit \/ play_wait \/ play_unprep
  \/ rec_start \/ rec_submit \/ rec_wait \/ rec_on_chunk
  \/ rec_unprep \/ rec_fin_reset \/ rec_fin_unprep \/ rec_stop

\* No device call fails for reasons outside the engine.
LiveInit ==
  /\ kind \in {"out", "in"}
  /\ legacy \in BOOLEAN
  /\ fmt \in {cinit(c, r, w) : c \in Channels, r \in FrameRates, w \in SampWidths}
  /\ pc = "idle"
  /\ dev = [hdr |-> ZeroHdrs, queue |-> <<>>, pend |-> FALSE,
            started |-> FALSE, hwOpen |-> TRUE]
  /\ evt \in {[signaled |-> b, open |-> TRUE] : b \in BOOLEAN}
  /\ loc = NoLocals
  /\ exc = NoExc
  /\ result = NoExc
  /\ faults = 0
  /\ calls = 0
  /\ hist = InitHist

\* The calling thread runs on, the driver completes what is queued and
\* notifies what it completed.
LiveSpec ==
  /\ LiveInit /\ [][Next]_vars
  /\ WF_vars(Running) /\ WF_vars(DevDone) /\ WF_vars(DevSignal)

\* ------------------------------------------------------------ properties
\* The call has ended and its outcome is with the caller.
Ended(op) == pc = "idle" /\ hist.op = op

\* No device call has failed for reasons outside the engine.
NoInjectedFault == faults = MaxFaults

\* C1: when a producer or consumer raises on its j-th call (j >= 1), a device
\* reset has been performed and nothing is left prepared or queued when the
\* error reaches the caller: prepares minus unprepares is zero and no slot is
\* in submitted state.
C1_CallbackCleanup ==
  (pc = "idle" /\ hist.op \in {"play", "record"} /\ hist.cbRaised >= 1
     /\ NoInjectedFault)
  => /\ hist.nPrep - hist.nUnprep = 0
     /\ hist.left.prepared = {}
     /\ hist.left.inqueue = {}
     /\ (hist.nSubmit > 0 => hist.resetDone)

\* C2: a play or record call ended by voluntary stop (empty chunk, false)
\* returns only after every slot it submitted has been unprepared, the
\* pre-queued next slot of record's last iteration included.
C2_VoluntaryStopClean ==
  (pc = "idle" /\ hist.op \in {"play", "record"} /\ result = Returned
     /\ hist.stopped \in {"empty", "false"} /\ hist.failed = <<>>)
  => /\ hist.left.prepared = {}
     /\ hist.nUnprep = hist.nSubmit

\* C3: a wait that returns by timeout while current's completion flag is
\* unset leads to another wait: the engine is never about to unprepare
\* (play) or to consume (record) current after such a wait.
C3_TimeoutWaitsAgain ==
  (pc \in {"play_unprep", "rec_on_chunk"} /\ loc.r = WAIT_TIMEOUT)
  => dev.hdr[loc.phdr].done

\* C4: when the producer returns N >= 1 non-empty chunks and then an empty
\* value and every device call succeeds, play makes exactly N submissions
\* (prepare + write) and exactly N unprepares, in submission order.
C4_PlayCounts ==
  (Ended("play") /\ result = Returned /\ hist.failed = <<>> /\ hist.nChunks >= 1)
  => /\ hist.nPrep = hist.nChunks
     /\ hist.nSubmit = hist.nChunks
     /\ hist.nUnprep = hist.nChunks
     /\ hist.submitOrder = [i \in 1 .. hist.nChunks |-> i]
     /\ hist.unprepOrder = hist.submitOrder

C4_Witness ==
  /\ Ended("play") /\ result = Returned /\ hist.failed = <<>>
  /\ hist.nChunks >= 2 /\ hist.nUnprep = hist.nChunks

\* C5 (amended): when the consumer returns true M times and then false and
\* every device call succeeds, exactly M+2 buffers are submitted and consume
\* is invoked exactly M+1 times, each time with k * blockAlign bytes.
C5_RecordCounts ==
  (Ended("record") /\ hist.stopped = "false" /\ hist.failed = <<>>)
  => /\ hist.nSubmit = hist.nTrue + 2
     /\ hist.nConsume = hist.nTrue + 1
     /\ hist.consLens = {hist.samples * fmt.nBlockAlign}

C5_Witness ==
  /\ Ended("record") /\ hist.stopped = "false" /\ hist.failed = <<>>
  /\ hist.nTrue >= 1 /\ hist.nConsume = hist.nTrue + 1

\* C5 as stated: exactly M+1 buffers are submitted and consume is invoked
\* exactly M times, each time with k * blockAlign bytes.
C5_Original ==
  (Ended("record") /\ hist.stopped = "false" /\ hist.failed = <<>>)
  => /\ hist.nSubmit = hist.nTrue + 1
     /\ hist.nConsume = hist.nTrue
     /\ hist.consLens = {hist.samples * fmt.nBlockAlign}

\* C6: on every exit from record's loop (consumer false, consumer raised, a
\* device call in the loop failed) the device stop call is issued before
\* record returns or raises.
C6_StopAlways ==
  (Ended("record") /\ hist.inLoop) => hist.stopIssued

C6_Witness ==
  /\ Ended("record") /\ hist.inLoop /\ hist.stopIssued
  /\ result = CallbackError

\* C7: when the producer returns an empty value on its first call, play
\* returns normally in that very step with no device interaction and the
\* device and the event unchanged.
C7_EmptyFirstCall ==
  [][(calls' = calls + 1 /\ hist'.op = "play" /\ hist'.nProduce = 1
        /\ hist'.stopped = "empty")
     => /\ pc' = "idle" /\ result' = Returned
        /\ dev' = dev /\ evt' = evt
        /\ hist'.devCalls = 0 /\ hist'.waits = 0]_vars

C7_Witness ==
  /\ Ended("play") /\ hist.nProduce = 1 /\ hist.stopped = "empty"
  /\ result = Returned /\ hist.devCalls = 0

\* C8: whenever a device call made during play, record or close returns a
\* code other than NOERROR, the call ends with an error carrying that code,
\* and no further buffer is submitted after it.
C8_FailureSurfaces ==
  (pc \in {"idle", "closed"} /\ Len(hist.failed) = 1)
  => /\ result = OSError(hist.failed[1].cause, hist.failed[1].code)
     /\ ~hist.submitAfterFail

\* C9: after close() has released the completion event, the device never
\* signals that event again (here: for a buffer that completes after the
\* release), whatever play/record calls (ended by voluntary stop or by a
\* callback error) came before close().
C9_NoSignalAfterRelease ==
  (~hist.devEnded /\ NoInjectedFault) => ~hist.lateSignal

\* C10: close() releases the event, then resets the device, then releases
\* the device handle: no reset before the event is released, no release of
\* the handle before the reset, no release of the event after the handle.
C10_CloseOrder ==
  LET L == hist.closeLog IN
  /\ \A i \in DOMAIN L :
       /\ L[i] = "reset" => \E j \in 1 .. i - 1 : L[j] = "CloseHandle"
       /\ L[i] = "close" => \E j \in 1 .. i - 1 : L[j] = "reset"
       /\ L[i] = "CloseHandle" => \A j \in 1 .. i - 1 : L[j] # "close"
  /\ ~dev.hwOpen => (~evt.open /\ \E i \in DOMAIN L : L[i] = "close")

C10_Witness ==
  /\ pc = "closed" /\ ~dev.hwOpen /\ ~evt.open
  /\ hist.closeLog = <<"CloseHandle", "reset", "close">>

\* ---------------------------------------------- translator, construction
\* C11 (as the code has it): a code other than NOERROR raises an error whose
\* name is the driver's own text whenever the driver supplies one, otherwise
\* the table name when the code is listed and UNKNOWN_ERROR when it is not;
\* NOERROR raises nothing.
C11_ErrorName ==
  pc \in {"constructed", "cinit_failed"} =>
    LET f == hist.failed IN
    IF f = <<>> THEN result = Returned
    ELSE /\ result.type = "OSError" /\ f[1].code # NOERROR
         /\ result.code = f[1].code
         /\ result.msg =
              IF loc.r2 = NOERROR THEN loc.msg
              ELSE IF result.code \in DOMAIN ERROR_CODES
                   THEN ERROR_CODES[result.code] ELSE "UNKNOWN_ERROR"

\* C11 as stated: the name is the table name whenever the code is listed.
C11_Original ==
  (pc = "cinit_failed" /\ result.code \in DOMAIN ERROR_CODES)
  => result.msg = ERROR_CODES[result.code]

C11_Witness ==
  /\ pc = "cinit_failed" /\ result.code \in DOMAIN ERROR_CODES
  /\ loc.r2 = NOERROR /\ result.msg = loc.msg

\* C12: a constructor given a zero channel count, sample rate or sample
\* width fails with an invalid-format error and never calls the open.
C12_ZeroFormatRejected ==
  (pc \in {"constructed", "cinit_failed"} /\ ZeroArg(loc))
  => (result.type = "InvalidFormatError" /\ hist.devCalls = 0)

\* C20: when the open is refused during construction, the completion event
\* is released: no event handle stays open.
C20_EventReleasedOnFailedOpen ==
  pc = "cinit_failed" => ~evt.open

\* C13: a wait that returns signaled while the completion flag of current is
\* unset is followed by another wait: the engine neither unprepares nor
\* consumes current in that step.
C13_SignaledUnsetWaitsAgain ==
  [][(pc \in {"play_wait", "rec_wait"} /\ evt.signaled
        /\ ~dev.hdr[loc.phdr].done)
     => (pc' = pc /\ hist'.nConsume = hist.nConsume
                 /\ hist'.devCalls = hist.devCalls)]_vars

\* A first wait of the call returned signaled with the flag unset and the
\* engine is at the wait again.
C13_Witness ==
  /\ pc \in {"play_wait", "rec_wait"} /\ hist.waits = 1
  /\ hist.nConsume = 0 /\ hist.nUnprep = 0 /\ hist.failed = <<>>
  /\ loc.r = WAIT_OBJECT_0 /\ evt.signaled /\ ~dev.hdr[loc.phdr].done

\* Buffers handed to the device and not yet unprepared.
Outstanding == {s \in Slots : dev.hdr[s].prepared}

C15_NoDoublePrepare ==
  /\ (pc = "play_submit" /\ loc.data > 0) => ~dev.hdr[loc.pnext_hdr].prepared
  /\ pc = "rec_submit" => ~dev.hdr[loc.pnext_hdr].prepared

C17_EventuallyReturns ==
  /\ [](pc \in {"play_wait", "rec_wait"} => ENABLED (play_wait \/ rec_wait))
  /\ (pc # "idle" /\ hist.stopped \in {"empty", "false"})
       ~> (pc = "idle" \/ hist.failed # <<>>)

C17_Witness ==
  /\ pc = "idle" /\ hist.stopped \in {"empty", "false"} /\ hist.waits = 1
  /\ hist.failed = <<>> /\ result = Returned /\ faults = 0

IsPrefix(a, b) == Len(a) <= Len(b) /\ \A i \in DOMAIN a : a[i] = b[i]

\* C18: in every iteration of record the bytes given to consume are the data
\* region of the current slot; the regions are consumed in the order in which
\* they were submitted, and the two of them alternate strictly.
C18_ConsumeCurrentRegion ==
  hist.op = "record" =>
    /\ pc = "rec_on_chunk" => loc.data1 = dev.hdr[loc.phdr].lpData
    /\ IsPrefix(hist.consData, hist.submitCalls)
    /\ \A i \in DOMAIN hist.consData :
         /\ hist.consData[i] \in {1, 2}
         /\ i > 1 => hist.consData[i] # hist.consData[i - 1]

C18_Witness ==
  /\ pc = "idle" /\ hist.op = "record" /\ hist.consData = <<1, 2, 1>>
  /\ hist.submitCalls = <<1, 2, 1, 2>>

\* C19: when a device call fails in the middle of play or record and the
\* error reaches the caller, no buffer is left prepared or queued.
C19_DeviceFailureCleanup ==
  (pc = "idle" /\ hist.op \in {"play", "record"} /\ hist.cbRaised = 0
     /\ result.type = "OSError")
  => (hist.left.prepared = {} /\ hist.left.inqueue = {})

====
